---------------------------- MODULE Spec2Model ----------------------------
(***************************************************************************)
(* pdvconsole: a terminal dashboard of PagerDuty incidents.                *)
(*                                                                         *)
(* The model follows src/src/pdvconsole/vconsole.py and kbhit.py:          *)
(*   - VConsole, the shared dashboard state (incident dict, priorities,    *)
(*     filters, sort mode, reverse flag, counters, last_updated);          *)
(*   - the keyboard listener thread (kbhit.Listener) calling on_press;     *)
(*   - the asyncio tasks of main(): fetch_priorities, update_pd_details,   *)
(*     render_vconsole and catch_stop, run by one event loop.              *)
(*                                                                         *)
(* Python strings are TLA+ strings; their order (str.__lt__) is the order  *)
(* of their code points, given by CodePoints.  Python's None is the value  *)
(* None below.  A dict keeps insertion order, so the incident dict is a    *)
(* sequence of Incident records with pairwise distinct pdid.               *)
(***************************************************************************)
EXTENDS Integers, Sequences, FiniteSets, TLC

(***************************************************************************)
(* Module constants of vconsole.py                                         *)
(***************************************************************************)
MIN_DISPLAY_ROWS == 5
PANEL_OFFSET == 6
POLL_TIME_SECONDS == 60

\* class SortBy(Enum)
CREATED_AT == 0
PRIORITY == 1
URGENCY == 2
SortBy == {CREATED_AT, PRIORITY, URGENCY}

None == "None"

\* secrets.get("PAGERDUTY_USER_ID")
PAGERDUTY_USER_ID == "U1"

(***************************************************************************)
(* Python values: truthiness, dict.get, str order, str.lower, int()        *)
(***************************************************************************)
\* bool(v) of an Optional[str]: None and "" are falsy
Truthy(v) == v # None /\ v # ""

\* the empty dict {} (also stands for a JSON null, which is falsy like {})
EmptyDict == [k \in {} |-> k]

\* d.get(k, default) of a dict with string keys
DictGet(d, k, default) == IF k \in DOMAIN d THEN d[k] ELSE default

\* the code points of the strings the model orders
CodePoints(s) ==
  CASE s = "" -> <<>>
    [] s = "P1" -> <<80, 49>>
    [] s = "P2" -> <<80, 50>>
    [] s = "P10" -> <<80, 49, 48>>
    [] s = "high" -> <<104, 105, 103, 104>>
    [] s = "low" -> <<108, 111, 119>>
    [] s = "2023-05-01T09:30:00Z" ->
         <<50, 48, 50, 51, 45, 48, 53, 45, 48, 49, 84, 48, 57, 58, 51, 48, 58, 48, 48, 90>>
    [] s = "2023-05-01T10:00:00Z" ->
         <<50, 48, 50, 51, 45, 48, 53, 45, 48, 49, 84, 49, 48, 58, 48, 48, 58, 48, 48, 90>>
    [] s = "2023-05-01T10:05:00Z" ->
         <<50, 48, 50, 51, 45, 48, 53, 45, 48, 49, 84, 49, 48, 58, 48, 53, 58, 48, 48, 90>>
    [] s = "2023-05-01T10:05:00+00:00" ->
         <<50, 48, 50, 51, 45, 48, 53, 45, 48, 49, 84, 49, 48, 58, 48, 53, 58, 48, 48,
           43, 48, 48, 58, 48, 48>>

\* lexicographic order of two sequences of code points
RECURSIVE SeqLess(_, _)
SeqLess(a, b) ==
  IF b = <<>> THEN FALSE
  ELSE IF a = <<>> THEN TRUE
  ELSE IF Head(a) = Head(b) THEN SeqLess(Tail(a), Tail(b))
  ELSE Head(a) < Head(b)

\* str.__lt__
StrLess(s, t) == SeqLess(CodePoints(s), CodePoints(t))

\* tuple.__lt__ of two tuples of strings of the same length
RECURSIVE TupleLess(_, _)
TupleLess(k1, k2) ==
  IF k1 = <<>> \/ k2 = <<>> THEN k1 = <<>> /\ k2 # <<>>
  ELSE IF Head(k1) = Head(k2) THEN TupleLess(Tail(k1), Tail(k2))
  ELSE StrLess(Head(k1), Head(k2))

\* the keys the key source can deliver: one character, or "" at end of input
Digits == {"0", "1", "2", "3", "4", "5", "6", "7", "8", "9"}
LowerLetters == {"h", "l", "a", "s", "r", "q", "x"}
UpperLetters == {"H", "L", "A", "S", "R", "Q", "X"}
Keys == Digits \cup LowerLetters \cup UpperLetters \cup {""}

\* str.lower()
Lower(key) ==
  CASE key = "H" -> "h"
    [] key = "L" -> "l"
    [] key = "A" -> "a"
    [] key = "S" -> "s"
    [] key = "R" -> "r"
    [] key = "Q" -> "q"
    [] key = "X" -> "x"
    [] OTHER -> key

\* int(key) of a digit
IntOf(key) ==
  CASE key = "0" -> 0 [] key = "1" -> 1 [] key = "2" -> 2 [] key = "3" -> 3
    [] key = "4" -> 4 [] key = "5" -> 5 [] key = "6" -> 6 [] key = "7" -> 7
    [] key = "8" -> 8 [] key = "9" -> 9

\* the substrings of "hla": the strings k with  k in "hla"
SubstringsOfHla == {"", "h", "l", "a", "hl", "la", "hla"}

(***************************************************************************)
(* Incident and Priority                                                   *)
(***************************************************************************)
\* Incident._is_assigned
IsAssigned(raw) ==
  LET assignments == DictGet(raw, "assignments", <<>>)
      ids == {assignments[i].assignee.id : i \in DOMAIN assignments}
  IN PAGERDUTY_USER_ID \in ids

\* the keys Incident.from_dict subscripts: a record lacking one raises KeyError
RequiredKeys == {"id", "title", "urgency", "status", "created_at"}
WellFormed(raw) == RequiredKeys \subseteq DOMAIN raw

\* Incident.from_dict, for a well-formed record; last_seen defaults to now
FromDict(raw, t) ==
  LET p == DictGet(raw, "priority", EmptyDict)
      priority == IF DOMAIN p # {} THEN p ELSE EmptyDict
  IN [pdid |-> raw.id,
      title |-> raw.title,
      urgency |-> raw.urgency,
      status |-> raw.status,
      created_at |-> raw.created_at,
      priority |-> DictGet(priority, "summary", ""),
      self_assigned |-> IsAssigned(raw),
      last_seen |-> t]

\* get_priorities: enumerate(resp.json()["priorities"], start=1)
BuildPriorities(resp) ==
  [i \in DOMAIN resp |-> [index |-> i, pdid |-> resp[i].id, name |-> resp[i].name]]

(***************************************************************************)
(* VConsole: the derived view                                              *)
(***************************************************************************)
\* VConsole._sort_key
SortKey(sb, incident) ==
  IF sb = PRIORITY THEN <<incident.priority, incident.created_at>>
  ELSE IF sb = URGENCY THEN <<incident.urgency, incident.created_at>>
  ELSE <<incident.created_at>>

\* x put into the sorted sequence s behind every element whose key is not greater
RECURSIVE InsertSorted(_, _, _)
InsertSorted(s, x, sb) ==
  IF s = <<>> THEN <<x>>
  ELSE IF TupleLess(SortKey(sb, x), SortKey(sb, Head(s))) THEN <<x>> \o s
  ELSE <<Head(s)>> \o InsertSorted(Tail(s), x, sb)

\* a slip: the sort forgotten, the list stays in the order of the dict
Unsorted(seq, sb) == seq

\* sorted(seq, key=self._sort_key): ascending and stable
RECURSIVE Sorted(_, _)
Sorted(seq, sb) ==
  IF seq = <<>> THEN <<>>
  ELSE InsertSorted(Sorted(SubSeq(seq, 1, Len(seq) - 1), sb), seq[Len(seq)], sb)

\* seq[::-1]
Reversed(seq) == [i \in 1..Len(seq) |-> seq[Len(seq) + 1 - i]]

\* VConsole.incidents (the property), of given field values
IncidentsOf(incs, pf, uf, sb, rev) ==
  LET byPriority(i) == i.priority = pf
      byUrgency(i) == i.urgency = uf
      l1 == IF Truthy(pf) THEN SelectSeq(incs, byPriority) ELSE incs
      l2 == IF Truthy(uf) THEN SelectSeq(l1, byUrgency) ELSE l1
      l3 == Sorted(l2, sb)
  IN IF ~rev THEN l3 ELSE Reversed(l3)

\* a slip: a list appended to, in place of a dict assigned by key
UpdateAppends(incs, incident) == Append(incs, incident)

\* VConsole.update: self._incidents[incident.pdid] = incident
Update(incs, incident) ==
  IF \E i \in DOMAIN incs : incs[i].pdid = incident.pdid
  THEN [i \in DOMAIN incs |-> IF incs[i].pdid = incident.pdid THEN incident ELSE incs[i]]
  ELSE Append(incs, incident)

\* timedelta.seconds: the seconds component, the days dropped
SECONDS_PER_DAY == 86400
TimedeltaSeconds(d) == d % SECONDS_PER_DAY

\* VConsole.clean at time t
Clean(incs, t) ==
  LET keep(i) == ~(TimedeltaSeconds(t - i.last_seen) > POLL_TIME_SECONDS)
  IN SelectSeq(incs, keep)

\* a slip: every incident of the view counted as triggered
CountAllOf(view) == Len(view)

\* the four counts update_counts assigns, of a view
IsTriggered(inc) == inc.status = "triggered"
IsAcknowledged(inc) == inc.status = "acknowledged"
IsSelfAssigned(inc) == inc.self_assigned
CountTriggeredOf(view) == Len(SelectSeq(view, IsTriggered))
CountAcknowledgedOf(view) == Len(SelectSeq(view, IsAcknowledged))
CountAssignedOf(view) == Len(SelectSeq(view, IsSelfAssigned))

(***************************************************************************)
(* VConsole.on_press                                                       *)
(***************************************************************************)
\* pri_map.get(n) with pri_map = {p.index: p.name for p in self.priorities}
PriMapGet(prios, n) ==
  IF \E i \in DOMAIN prios : prios[i].index = n
  THEN prios[CHOOSE i \in DOMAIN prios :
                 prios[i].index = n
                 /\ \A j \in DOMAIN prios : prios[j].index = n => j <= i].name
  ELSE None

\* {"h": "high", "l": "low", "a": None}.get(key)
UrgencyMapGet(key) ==
  CASE key = "h" -> "high"
    [] key = "l" -> "low"
    [] OTHER -> None

\* a slip: the toggle forgotten, a digit always selects its priority
PressPrioritySelects(prios, pf, key) ==
  IF key \in Digits THEN PriMapGet(prios, IntOf(key)) ELSE pf

\* the priority filter after on_press(key)
PressPriority(prios, pf, key) ==
  IF key \in Digits
  THEN IF PriMapGet(prios, IntOf(key)) = pf THEN None
       ELSE PriMapGet(prios, IntOf(key))
  ELSE pf

\* the urgency filter after on_press(key)
PressUrgency(uf, key) ==
  IF Lower(key) \in SubstringsOfHla THEN UrgencyMapGet(key) ELSE uf

\* a slip: the modulus forgotten, 's' stops at the last mode
PressSortStops(sb, key) ==
  IF Lower(key) = "s" /\ sb + 1 < Cardinality(SortBy) THEN sb + 1 ELSE sb

\* the sort mode after on_press(key)
PressSort(sb, key) ==
  IF Lower(key) = "s" THEN (sb + 1) % Cardinality(SortBy) ELSE sb

\* a slip: 'r' sets the flag, it does not flip it
PressReverseSets(rev, key) == IF Lower(key) = "r" THEN TRUE ELSE rev

\* the reverse flag after on_press(key)
PressReverse(rev, key) ==
  IF Lower(key) = "r" THEN ~rev ELSE rev

\* a slip: the quit branch forgotten, on_press always returns True
PressReturnNeverStops(key) == TRUE

\* what on_press(key) returns
PressReturn(key) == Lower(key) # "q"

(***************************************************************************)
(* render_incident_panel and calc_max_height                               *)
(***************************************************************************)
\* calc_max_height, of console.size.height
CalcMaxHeight(height) ==
  IF height > MIN_DISPLAY_ROWS THEN height - PANEL_OFFSET ELSE MIN_DISPLAY_ROWS

\* seq[:stop]
SliceTo(seq, stop) ==
  LET n == IF stop >= 0 THEN (IF stop < Len(seq) THEN stop ELSE Len(seq))
           ELSE (IF Len(seq) + stop > 0 THEN Len(seq) + stop ELSE 0)
  IN SubSeq(seq, 1, n)

\* hidden_count = len(pd_details.incidents) - panel_height + 1
HiddenCount(view, panel_height) == Len(view) - panel_height + 1

\* the strings datetime.strptime(created_at, "%Y-%m-%dT%H:%M:%SZ") parses
ParsableCreatedAt ==
  {"2023-05-01T09:30:00Z", "2023-05-01T10:00:00Z", "2023-05-01T10:05:00Z"}

\* formatting the rows raises ValueError: strptime cannot parse a created_at
FormatRaises(rows) ==
  \E i \in DOMAIN rows : rows[i].created_at \notin ParsableCreatedAt

(***************************************************************************)
(* The inputs: what the PagerDuty API, the terminal and the clock deliver  *)
(***************************************************************************)
RawA1 ==
  [id |-> "A", title |-> "db down", urgency |-> "high", status |-> "triggered",
   created_at |-> "2023-05-01T10:00:00Z", priority |-> [summary |-> "P1"],
   assignments |-> <<[assignee |-> [id |-> "U1"]]>>]
\* incident A again, acknowledged and re-prioritised since
RawA2 ==
  [id |-> "A", title |-> "db down", urgency |-> "low", status |-> "acknowledged",
   created_at |-> "2023-05-01T10:00:00Z", priority |-> [summary |-> "P2"],
   assignments |-> <<[assignee |-> [id |-> "U2"]]>>]
\* created in the same second as A
RawB1 ==
  [id |-> "B", title |-> "disk full", urgency |-> "low", status |-> "triggered",
   created_at |-> "2023-05-01T10:00:00Z", priority |-> [summary |-> "P10"],
   assignments |-> <<>>]
\* "priority": null, and no assignments
RawC1 ==
  [id |-> "C", title |-> "cert expiry", urgency |-> "high", status |-> "acknowledged",
   created_at |-> "2023-05-01T09:30:00Z", priority |-> EmptyDict]
\* an incident whose created_at carries an offset in place of the Z
RawOdd ==
  [id |-> "E", title |-> "queue stuck", urgency |-> "low", status |-> "triggered",
   created_at |-> "2023-05-01T10:05:00+00:00", priority |-> EmptyDict]
\* a record without "status" and "created_at"
RawBad == [id |-> "D", title |-> "truncated", urgency |-> "high"]

RawPool == {RawA1, RawA2, RawB1, RawC1, RawBad}

\* resp.json()["incidents"] of the pages of GET /incidents: the open incidents
\* come in the order served (sort_by=created_at:desc), A and B on the first
\* page and C on the second; a page holds its incidents, nothing, or a
\* malformed record
Served ==
  <<{<<RawA1, RawB1>>, <<>>, <<RawBad>>},
    {<<RawC1>>, <<>>, <<RawBad>>}>>

\* what page p can hold; the pages beyond those served are empty
PageContents(served, p) == IF p \in DOMAIN served THEN served[p] ELSE {<<>>}

\* the pages of one poll cycle and the poll cycles of a run
MaxPages == 2
MaxCycles == 2

\* resp.json()["priorities"] of GET /priorities
PriorityResponses ==
  {<<[id |-> "PR1", name |-> "P1"], [id |-> "PR2", name |-> "P2"],
     [id |-> "PR3", name |-> "P10"]>>}

\* console.size.height
TermHeights == {8}

\* the seconds asyncio.sleep(POLL_TIME_SECONDS) and one page request take
SleepSeconds == {POLL_TIME_SECONDS, POLL_TIME_SECONDS + 1}
FetchSeconds == {0}

\* the keys typed while the dashboard runs
TypedKeys == {"2", "q"}

\* datetime.now().strftime("%H:%M:%S"): some clock reading
Timestamp == "HH:MM:SS"

(***************************************************************************)
(* State                                                                   *)
(***************************************************************************)
VARIABLES
  \* VConsole
  last_updated, total_incidents, total_triggered, total_acknowledged,
  total_assigned, _incidents, priorities, priority_filter, urgency_filter,
  sort_by, reverse,
  \* kbhit: the listener thread, the terminal mode, the last character read
  kb_pc, term, key,
  \* main and its event loop; batch: the tasks run since event_loop.stop()
  main_pc, exit_code, loop, batch,
  \* the tasks: fetch_priorities, update_pd_details, catch_stop
  fp_pc, poll_pc, page, poll_error, cs_pc,
  \* render_vconsole and the locals of render_incident_panel
  r_pc, mxh, incidents_, hidden_count,
  \* the clock, in seconds
  now,
  \* bookkeeping: the poll cycles begun; the incident dict when the current
  \* cycle began; the views the current render tick has read; the last two
  \* direct calls of on_press, the latest first (the key, the fields before
  \* the call, what it returned); the direct calls of update, in order
  ncycles, cycle_start, reads, pressed, upserts

vconsole == <<last_updated, total_incidents, total_triggered, total_acknowledged,
              total_assigned, _incidents, priorities, priority_filter,
              urgency_filter, sort_by, reverse>>
counters == <<total_incidents, total_triggered, total_acknowledged, total_assigned>>
controls == <<priority_filter, urgency_filter, sort_by, reverse>>
keyboard == <<kb_pc, term, key>>
eventloop == <<main_pc, exit_code, loop, batch>>
poller == <<poll_pc, page, poll_error>>
renderer == <<r_pc, mxh, incidents_, hidden_count>>
bookkeeping == <<ncycles, cycle_start, reads, pressed, upserts>>
vars == <<vconsole, keyboard, eventloop, fp_pc, poller, cs_pc, renderer, now,
          bookkeeping>>

\* VConsole.incidents, of the current state
incidents ==
  IncidentsOf(_incidents, priority_filter, urgency_filter, sort_by, reverse)

\* main() up to event_loop.run_forever(): VConsole(), the listener started (the
\* terminal raw), the four tasks created
Init ==
  /\ last_updated = Timestamp
  /\ total_incidents = 0 /\ total_triggered = 0
  /\ total_acknowledged = 0 /\ total_assigned = 0
  /\ _incidents = <<>>
  /\ priorities = <<>>
  /\ priority_filter = None /\ urgency_filter = None
  /\ sort_by = CREATED_AT /\ reverse = FALSE
  /\ kb_pc = "listening" /\ term = "raw" /\ key = None
  /\ main_pc = "run_forever" /\ exit_code = None /\ loop = "running" /\ batch = {}
  /\ fp_pc = "created"
  /\ poll_pc = "created" /\ page = 0 /\ poll_error = None
  /\ cs_pc = "created"
  /\ r_pc = "created" /\ mxh = 0 /\ incidents_ = <<>> /\ hidden_count = 0
  /\ now = 0
  /\ ncycles = 0
  /\ cycle_start = <<>> /\ reads = <<>>
  /\ pressed = <<>> /\ upserts = <<>>

(***************************************************************************)
(* The keyboard listener thread (kbhit.Listener._build_listener.listen)    *)
(***************************************************************************)
\* VConsole.on_press(k): the fields it assigns
OnPress(k) ==
  /\ priority_filter' = PressPriority(priorities, priority_filter, k)
  /\ urgency_filter' = PressUrgency(urgency_filter, k)
  /\ sort_by' = PressSort(sort_by, k)
  /\ reverse' = PressReverse(reverse, k)
  /\ key' = k
  /\ UNCHANGED <<last_updated, counters, _incidents, priorities>>

\* one turn of the loop with a key waiting: c = getch(); on_press(c); break on False
ListenKey(k) ==
  /\ kb_pc = "listening"
  /\ OnPress(k)
  /\ kb_pc' = IF PressReturn(k) THEN "listening" ELSE "finishing"
  /\ UNCHANGED <<term, eventloop, fp_pc, poller, cs_pc, renderer, now,
                 bookkeeping>>

\* after the loop: self._keyboard.set_normal_term(), and the thread ends
ListenerFinish ==
  /\ kb_pc = "finishing"
  /\ term' = "normal"
  /\ kb_pc' = "dead"
  /\ UNCHANGED <<vconsole, key, eventloop, fp_pc, poller, cs_pc, renderer, now,
                 bookkeeping>>

\* Listener.is_listening: self._thread.is_alive()
IsListening == kb_pc # "dead"

(***************************************************************************)
(* The event loop of main(): one task runs at a time, up to its next await *)
(***************************************************************************)
\* render_incident_panel is under way (only the listener thread interleaves)
MidRender == r_pc \notin {"created", "sleeping", "failed"}

\* the loop may resume the task: it runs, or it stops after the current batch
\* of callbacks, in which the task has not run yet
CanRun(task) ==
  /\ main_pc = "run_forever"
  /\ ~MidRender
  /\ \/ loop = "running"
     \/ loop = "stopping" /\ task \notin batch

Ran(task) == batch' = IF loop = "stopping" THEN batch \cup {task} ELSE batch

\* fetch_priorities up to the await of get_priorities()
FetchPrioritiesStart ==
  /\ CanRun("fetch_priorities")
  /\ fp_pc = "created"
  /\ last_updated' = "Fetching priorities..."
  /\ fp_pc' = "awaiting"
  /\ Ran("fetch_priorities")
  /\ UNCHANGED <<counters, _incidents, priorities, controls, keyboard, main_pc,
                 exit_code, loop, poller, cs_pc, renderer, now, bookkeeping>>

\* get_priorities() returns the priorities
FetchPrioritiesDone(resp) ==
  /\ CanRun("fetch_priorities")
  /\ fp_pc = "awaiting"
  /\ priorities' = BuildPriorities(resp)
  /\ fp_pc' = "done"
  /\ Ran("fetch_priorities")
  /\ UNCHANGED <<last_updated, counters, _incidents, controls, keyboard, main_pc,
                 exit_code, loop, poller, cs_pc, renderer, now, bookkeeping>>

\* get_priorities() raises (resp.raise_for_status()): the task ends
FetchPrioritiesFail ==
  /\ CanRun("fetch_priorities")
  /\ fp_pc = "awaiting"
  /\ fp_pc' = "failed"
  /\ Ran("fetch_priorities")
  /\ UNCHANGED <<vconsole, keyboard, main_pc, exit_code, loop, poller, cs_pc,
                 renderer, now, bookkeeping>>

(***************************************************************************)
(* update_pd_details and fetch_incidents                                   *)
(***************************************************************************)
\* async for incident in fetch_incidents(): pd_details.update(incident), over the
\* records of one page, up to the first record from_dict raises on
RECURSIVE MergePage(_, _, _)
MergePage(incs, recs, t) ==
  IF recs = <<>> THEN [incs |-> incs, raised |-> FALSE]
  ELSE IF ~WellFormed(Head(recs)) THEN [incs |-> incs, raised |-> TRUE]
  ELSE MergePage(Update(incs, FromDict(Head(recs), t)), Tail(recs), t)

\* a slip: the status line forgotten, the cycle begins without "Updating..."
BeginCycleSilent ==
  /\ last_updated' = last_updated
  /\ poll_pc' = "fetching"
  /\ page' = 1
  /\ ncycles' = ncycles + 1
  /\ cycle_start' = _incidents

\* the head of the while loop of update_pd_details and the first request of
\* fetch_incidents: last_updated = "Updating...", then await client.get
BeginCycle ==
  /\ last_updated' = "Updating..."
  /\ poll_pc' = "fetching"
  /\ page' = 1
  /\ ncycles' = ncycles + 1
  /\ cycle_start' = _incidents

\* the first run of the loop
PollStart ==
  /\ CanRun("update_pd_details")
  /\ poll_pc = "created"
  /\ fp_pc # "created"
  /\ BeginCycle
  /\ Ran("update_pd_details")
  /\ UNCHANGED <<counters, _incidents, priorities, controls, keyboard, main_pc,
                 exit_code, loop, fp_pc, poll_error, cs_pc, renderer, now,
                 reads, pressed, upserts>>

\* asyncio.sleep(POLL_TIME_SECONDS) is over: the next run of the loop
PollWake(secs) ==
  /\ CanRun("update_pd_details")
  /\ poll_pc = "sleeping"
  /\ ncycles < MaxCycles
  /\ now' = now + secs
  /\ BeginCycle
  /\ Ran("update_pd_details")
  /\ UNCHANGED <<counters, _incidents, priorities, controls, keyboard, main_pc,
                 exit_code, loop, fp_pc, poll_error, cs_pc, renderer,
                 reads, pressed, upserts>>

\* the request of a page fails: resp.raise_for_status() raises, the exception
\* leaves fetch_incidents and update_pd_details, the task ends
PollPageHttpError(secs) ==
  /\ CanRun("update_pd_details")
  /\ poll_pc = "fetching"
  /\ now' = now + secs
  /\ poll_pc' = "failed"
  /\ poll_error' = "HTTPStatusError"
  /\ Ran("update_pd_details")
  /\ UNCHANGED <<vconsole, keyboard, main_pc, exit_code, loop, fp_pc, page, cs_pc,
                 renderer, bookkeeping>>

\* a page arrives: its records are merged one by one; a malformed record raises
\* KeyError and ends the task; after a page with more the next is requested;
\* after the last the generator leaves  async with httpx.AsyncClient()
PollPage(secs, recs, more) ==
  /\ CanRun("update_pd_details")
  /\ poll_pc = "fetching"
  /\ more => page < MaxPages
  /\ now' = now + secs
  /\ LET m == MergePage(_incidents, recs, now')
     IN /\ _incidents' = m.incs
        /\ IF m.raised
           THEN /\ poll_pc' = "failed"
                /\ poll_error' = "KeyError"
                /\ UNCHANGED page
           ELSE IF more
           THEN /\ page' = page + 1
                /\ UNCHANGED <<poll_pc, poll_error>>
           ELSE /\ poll_pc' = "closing"
                /\ UNCHANGED <<page, poll_error>>
  /\ Ran("update_pd_details")
  /\ UNCHANGED <<last_updated, counters, priorities, controls, keyboard, main_pc,
                 exit_code, loop, fp_pc, cs_pc, renderer, bookkeeping>>

\* the cycle is over and the loop runs on: clean(), last_updated = the time,
\* await asyncio.sleep(POLL_TIME_SECONDS)
PollCycleEnd ==
  /\ CanRun("update_pd_details")
  /\ poll_pc = "closing"
  /\ _incidents' = Clean(_incidents, now)
  /\ last_updated' = Timestamp
  /\ poll_pc' = "sleeping"
  /\ cycle_start' = <<>>
  /\ Ran("update_pd_details")
  /\ UNCHANGED <<counters, priorities, controls, keyboard, main_pc, exit_code,
                 loop, fp_pc, page, poll_error, cs_pc, renderer, now, ncycles,
                 reads, pressed, upserts>>

(***************************************************************************)
(* render_vconsole: one tick is render_incident_panel (which reads         *)
(* pd_details.incidents two or three times and calls update_counts, four   *)
(* reads more), render_details_panel, and asyncio.sleep(0.2)               *)
(***************************************************************************)
\* mxh = calc_max_height(console);  if len(pd_details.incidents) > panel_height
RenderTick(height) ==
  /\ CanRun("render_vconsole")
  /\ r_pc \in {"created", "sleeping"}
  /\ r_pc = "created" => poll_pc # "created"
  /\ mxh' = CalcMaxHeight(height)
  /\ r_pc' = IF Len(incidents) > mxh' THEN "slice" ELSE "all"
  /\ reads' = <<incidents>>
  /\ Ran("render_vconsole")
  /\ UNCHANGED <<vconsole, keyboard, main_pc, exit_code, loop, fp_pc, poller,
                 cs_pc, incidents_, hidden_count, now, ncycles,
                 cycle_start, pressed, upserts>>

\* incidents_ = pd_details.incidents[: panel_height - 1]
RenderSlice ==
  /\ r_pc = "slice"
  /\ incidents_' = SliceTo(incidents, mxh - 1)
  /\ reads' = Append(reads, incidents)
  /\ r_pc' = "hidden"
  /\ UNCHANGED <<vconsole, keyboard, eventloop, fp_pc, poller, cs_pc, mxh,
                 hidden_count, now, ncycles, cycle_start,
                 pressed, upserts>>

\* hidden_count = len(pd_details.incidents) - panel_height + 1
RenderHidden ==
  /\ r_pc = "hidden"
  /\ hidden_count' = HiddenCount(incidents, mxh)
  /\ reads' = Append(reads, incidents)
  /\ r_pc' = "total"
  /\ UNCHANGED <<vconsole, keyboard, eventloop, fp_pc, poller, cs_pc, mxh,
                 incidents_, now, ncycles, cycle_start,
                 pressed, upserts>>

\* else: hidden_count = 0; incidents_ = pd_details.incidents
RenderAll ==
  /\ r_pc = "all"
  /\ hidden_count' = 0
  /\ incidents_' = incidents
  /\ reads' = Append(reads, incidents)
  /\ r_pc' = "total"
  /\ UNCHANGED <<vconsole, keyboard, eventloop, fp_pc, poller, cs_pc, mxh,
                 now, ncycles, cycle_start, pressed, upserts>>

\* update_counts: self.total_incidents = len(self.incidents)
CountTotal ==
  /\ r_pc = "total"
  /\ total_incidents' = Len(incidents)
  /\ r_pc' = "triggered"
  /\ UNCHANGED <<last_updated, total_triggered, total_acknowledged,
                 total_assigned, _incidents, priorities, controls, keyboard,
                 eventloop, fp_pc, poller, cs_pc, mxh, incidents_, hidden_count,
                 now, bookkeeping>>

\* update_counts: self.total_triggered = ...
CountTriggered ==
  /\ r_pc = "triggered"
  /\ total_triggered' = CountTriggeredOf(incidents)
  /\ r_pc' = "acknowledged"
  /\ UNCHANGED <<last_updated, total_incidents, total_acknowledged,
                 total_assigned, _incidents, priorities, controls, keyboard,
                 eventloop, fp_pc, poller, cs_pc, mxh, incidents_, hidden_count,
                 now, bookkeeping>>

\* update_counts: self.total_acknowledged = ...
CountAcknowledged ==
  /\ r_pc = "acknowledged"
  /\ total_acknowledged' = CountAcknowledgedOf(incidents)
  /\ r_pc' = "assigned"
  /\ UNCHANGED <<last_updated, total_incidents, total_triggered,
                 total_assigned, _incidents, priorities, controls, keyboard,
                 eventloop, fp_pc, poller, cs_pc, mxh, incidents_, hidden_count,
                 now, bookkeeping>>

\* update_counts: self.total_assigned = ...
CountAssigned ==
  /\ r_pc = "assigned"
  /\ total_assigned' = CountAssignedOf(incidents)
  /\ r_pc' = "details"
  /\ UNCHANGED <<last_updated, total_incidents, total_triggered,
                 total_acknowledged, _incidents, priorities, controls, keyboard,
                 eventloop, fp_pc, poller, cs_pc, mxh, incidents_, hidden_count,
                 now, bookkeeping>>

\* the rows are formatted, render_details_panel reads the fields, and the
\* task awaits asyncio.sleep(0.2); the locals of the tick are gone.  If a row
\* cannot be formatted the exception leaves render_vconsole and the task ends
RenderDetails ==
  /\ r_pc = "details"
  /\ r_pc' = IF FormatRaises(incidents_) THEN "failed" ELSE "sleeping"
  /\ mxh' = 0 /\ incidents_' = <<>> /\ hidden_count' = 0
  /\ reads' = <<>>
  /\ UNCHANGED <<vconsole, keyboard, eventloop, fp_pc, poller, cs_pc, now,
                 ncycles, cycle_start, pressed, upserts>>

(***************************************************************************)
(* catch_stop and the return of main                                       *)
(***************************************************************************)
\* while keyboard_listener.is_listening: await asyncio.sleep(0.5)
CatchStopWait ==
  /\ CanRun("catch_stop")
  /\ cs_pc \in {"created", "sleeping"}
  /\ cs_pc = "created" => r_pc # "created"
  /\ IsListening
  /\ cs_pc' = "sleeping"
  /\ Ran("catch_stop")
  /\ UNCHANGED <<vconsole, keyboard, main_pc, exit_code, loop, fp_pc, poller,
                 renderer, now, bookkeeping>>

\* the listener thread is gone: event_loop.stop()
CatchStop ==
  /\ CanRun("catch_stop")
  /\ cs_pc \in {"created", "sleeping"}
  /\ cs_pc = "created" => r_pc # "created"
  /\ ~IsListening
  /\ cs_pc' = "done"
  /\ loop' = IF loop = "running" THEN "stopping" ELSE loop
  /\ batch' = IF loop = "running" THEN {"catch_stop"} ELSE batch \cup {"catch_stop"}
  /\ UNCHANGED <<vconsole, keyboard, main_pc, exit_code, fp_pc, poller,
                 renderer, now, bookkeeping>>

\* run_forever() returns once the batch of callbacks in which stop() was called
\* has run, and main returns 0
MainReturn ==
  /\ main_pc = "run_forever"
  /\ loop = "stopping"
  /\ ~MidRender
  /\ loop' = "stopped"
  /\ main_pc' = "returned"
  /\ exit_code' = 0
  /\ UNCHANGED <<vconsole, keyboard, batch, fp_pc, poller, cs_pc, renderer, now,
                 bookkeeping>>

(***************************************************************************)
(* The program: the listener thread and the tasks of main(), for the keys  *)
(* typed, the incidents served and the terminal heights                    *)
(***************************************************************************)
Listener(keys) ==
  \/ \E k \in keys : ListenKey(k)
  \/ ListenerFinish

FetchPriorities ==
  \/ FetchPrioritiesStart
  \/ \E resp \in PriorityResponses : FetchPrioritiesDone(resp)
  \/ FetchPrioritiesFail

UpdatePdDetails(served) ==
  \/ PollStart
  \/ \E secs \in SleepSeconds : PollWake(secs)
  \/ \E secs \in FetchSeconds : PollPageHttpError(secs)
  \/ \E secs \in FetchSeconds, recs \in PageContents(served, page), more \in BOOLEAN :
        PollPage(secs, recs, more)
  \/ PollCycleEnd

RenderVConsole(heights) ==
  \/ \E height \in heights : RenderTick(height)
  \/ RenderSlice
  \/ RenderHidden
  \/ RenderAll
  \/ CountTotal
  \/ CountTriggered
  \/ CountAcknowledged
  \/ CountAssigned
  \/ RenderDetails

Supervisor ==
  \/ CatchStopWait
  \/ CatchStop
  \/ MainReturn

Program(keys, served, heights) ==
  \/ Listener(keys)
  \/ FetchPriorities
  \/ UpdatePdDetails(served)
  \/ RenderVConsole(heights)
  \/ Supervisor

Next == Program(TypedKeys, Served, TermHeights)

Spec == Init /\ [][Next]_vars

(***************************************************************************)
(* Shutdown: the program with only quit keys typed, under the scheduling   *)
(* the thread and the event loop give: the listener thread runs on after   *)
(* its loop; the loop starts every task created, resumes the renderer and  *)
(* catch_stop whenever their sleeps are over (the ready queue is first in, *)
(* first out), runs a render tick to its await, and run_forever returns    *)
(* once stopped.  No response of the API is assumed to arrive.             *)
(***************************************************************************)
QuitKeys == {"q", "Q"}
ShortTerminal == {7}
TwoIncidents == <<{<<RawA1>>}, {<<RawB1>>}>>

RenderTickSteps ==
  \/ RenderSlice
  \/ RenderHidden
  \/ RenderAll
  \/ CountTotal
  \/ CountTriggered
  \/ CountAcknowledged
  \/ CountAssigned
  \/ RenderDetails

QuitNext == Program(QuitKeys, TwoIncidents, ShortTerminal)

FairSpec ==
  /\ Init
  /\ [][QuitNext]_vars
  /\ WF_vars(ListenerFinish)
  /\ WF_vars(FetchPrioritiesStart)
  /\ WF_vars(PollStart)
  /\ WF_vars(\E height \in ShortTerminal : RenderTick(height))
  /\ WF_vars(RenderTickSteps)
  /\ SF_vars(CatchStop)
  /\ WF_vars(MainReturn)

\* on_press has returned False for a 'q' or 'Q'
QuitHandled == key \in QuitKeys

\* the listener thread is gone, the loop is stopped and main has returned 0
ShutDown ==
  /\ kb_pc = "dead"
  /\ cs_pc = "done"
  /\ loop = "stopped"
  /\ main_pc = "returned"
  /\ exit_code = 0

\* C4: once a 'q' or 'Q' keypress is handled (on_press returned the stop
\* signal), the listener loop ends, catch_stop sees it and stops the event loop,
\* and main returns exit code 0; from then on neither the poll loop nor the
\* render loop (nor any other task) takes a step.
C4_QuitShutsDown ==
  /\ QuitHandled ~> ShutDown
  /\ [][QuitHandled => kb_pc' # "listening"]_vars
  /\ [][main_pc = "returned" =>
          UNCHANGED <<vconsole, fp_pc, poller, cs_pc, renderer>>]_vars

\* a 'Q' was handled and the program has shut down with exit code 0
C4_Witness == key = "Q" /\ ShutDown /\ term = "normal"

(***************************************************************************)
(* The poll cycle, the render tick and the counters, in the program        *)
(***************************************************************************)
\* C1: if fetching fails part-way through a poll cycle (after some incidents
\* were fetched), the store is left exactly as it was before the cycle began:
\* nothing the failed cycle fetched is in it and nothing's last-seen is
\* refreshed.
C1_FailedCycleLeavesStore == poll_pc = "failed" => _incidents = cycle_start

\* C2: a failed poll cycle ends only that cycle: the poller is alive after
\* it, waiting out the interval or polling again.
C2_PollerOutlivesFailure ==
  poll_error # None => poll_pc \in {"sleeping", "fetching", "closing"}

\* the panel of one view: the rows and the hidden count render_incident_panel
\* gives when the view does not change under it
PanelRows(view, panel_height) ==
  IF Len(view) > panel_height
    THEN [i \in 1 .. (panel_height - 1) |-> view[i]]
    ELSE view

PanelHidden(view, panel_height) ==
  IF Len(view) > panel_height THEN Len(view) - (panel_height - 1) ELSE 0

\* the four counters of one view
CountersOf(view) ==
  <<Len(view), Cardinality({i \in DOMAIN view : view[i].status = "triggered"}),
    Cardinality({i \in DOMAIN view : view[i].status = "acknowledged"}),
    Cardinality({i \in DOMAIN view : view[i].self_assigned})>>

\* the rows, the hidden count and the counters of the tick are about to be
\* shown
PanelReady == r_pc = "details"

\* C5: what a render tick shows (rows, hidden count, counters) is computed
\* from one snapshot of the store and the control fields, one of the views
\* read during the tick, and the hidden count is never negative.
C5_RenderOneSnapshot ==
  PanelReady =>
    /\ hidden_count >= 0
    /\ \E i \in DOMAIN reads :
         /\ incidents_ = PanelRows(reads[i], mxh)
         /\ hidden_count = PanelHidden(reads[i], mxh)
         /\ counters = CountersOf(reads[i])

\* the keys that change a filter
FilterKeys == Digits \cup {"h", "l", "a", "H", "L", "A"}

\* the listener handles a filter key
FilterKeyHandled == \E k \in FilterKeys : ListenKey(k)

\* the last page of a cycle is merged into the store
CycleMerged == poll_pc = "fetching" /\ poll_pc' = "closing"

\* C6: the counters are recomputed in the step that changes the filtered
\* view: right after a filter keypress is handled, and right after a poll
\* cycle is merged, they are the counts of the current filtered view, with no
\* render tick in between.
C6_CountersFollowChanges ==
  [][(FilterKeyHandled \/ CycleMerged) =>
       counters' = CountersOf(incidents)']_vars

(***************************************************************************)
(* on_press called directly, key after key, while the priorities load      *)
(***************************************************************************)
\* one call of on_press(k): the key, the fields and the view before it, what
\* it returned
Call(k) ==
  [key |-> k, priorities |-> priorities, priority_filter |-> priority_filter,
   urgency_filter |-> urgency_filter, sort_by |-> sort_by, reverse |-> reverse,
   view |-> incidents, returned |-> PressReturn(k)]

\* pd_details.on_press(k)
CallOnPress(k) ==
  /\ OnPress(k)
  /\ pressed' = <<Call(k)>> \o SubSeq(pressed, 1, IF pressed = <<>> THEN 0 ELSE 1)
  /\ UNCHANGED <<kb_pc, term, eventloop, fp_pc, poller, cs_pc, renderer, now,
                 ncycles, cycle_start, reads, upserts>>

\* the keys pressed: an unmapped 0, two mapped digits, a digit beyond the
\* priorities, every letter in both cases, another character, end of input
PressedKeys ==
  {"0", "1", "2", "4", "x", ""} \cup
  ((LowerLetters \cup UpperLetters) \ {"x", "X"})

KeysNext ==
  \/ \E k \in PressedKeys : CallOnPress(k)
  \/ FetchPriorities

SpecKeys == Init /\ [][KeysNext]_vars

\* the digit has no priority under the list the call saw
Unmapped(call) ==
  /\ call.key \in Digits
  /\ IntOf(call.key) \notin 1 .. Len(call.priorities)

\* the name the digit of the call selects, None without one
NameOfDigit(call) ==
  IF Unmapped(call) THEN None ELSE call.priorities[IntOf(call.key)].name

\* the control fields are as they were before the call
ControlsAsBefore(call) ==
  /\ priority_filter = call.priority_filter
  /\ urgency_filter = call.urgency_filter
  /\ sort_by = call.sort_by
  /\ reverse = call.reverse

\* C8: a digit key with no priority mapped to it (0, or a digit beyond the
\* number of priorities loaded) is a no-op: after on_press the priority filter
\* and every other control field are what they were before.
C8_UnmappedDigitNoOp ==
  (pressed # <<>> /\ Unmapped(pressed[1])) => ControlsAsBefore(pressed[1])

\* on_press was called twice in a row with the same digit, the list of
\* priorities the same at both calls
SameDigitTwice ==
  /\ Len(pressed) = 2
  /\ pressed[1].key \in Digits
  /\ pressed[1].key = pressed[2].key
  /\ pressed[1].priorities = pressed[2].priorities

\* C9 (as stated): pressing the same digit key twice in a row leaves the
\* priority filter with the value it had before the first press, whatever that
\* value was (unset, the digit's own priority, or another priority).
C9_SameDigitTwiceRestores ==
  SameDigitTwice => priority_filter = pressed[2].priority_filter

\* C9 (amended): pressing the same digit key twice in a row leaves the
\* priority filter with the value it had before the first press when that
\* value was unset or the digit's own priority name, and unset otherwise.
C9_SameDigitTwice ==
  SameDigitTwice =>
    priority_filter =
      IF pressed[2].priority_filter \in {None, NameOfDigit(pressed[2])}
        THEN pressed[2].priority_filter
        ELSE None

\* '2' was pressed twice with the filter on its priority: cleared, then set
\* again
C9_Witness ==
  /\ SameDigitTwice
  /\ pressed[1].key = "2"
  /\ pressed[2].priority_filter = "P2"
  /\ pressed[1].priority_filter = None
  /\ priority_filter = "P2"

\* C10: the letter keys act the same in either case: h/H sets the urgency
\* filter to "high", l/L to "low", a/A clears it, s/S advances the sort mode,
\* r/R flips the reverse flag, q/Q returns the stop signal.
C10_LettersEitherCase ==
  pressed # <<>> =>
    LET call == pressed[1] IN
      /\ call.key \in {"h", "H"} => urgency_filter = "high"
      /\ call.key \in {"l", "L"} => urgency_filter = "low"
      /\ call.key \in {"a", "A"} => urgency_filter = None
      /\ call.key \in {"s", "S"} => sort_by = (call.sort_by + 1) % 3
      /\ call.key \in {"r", "R"} => reverse = ~call.reverse
      /\ call.key \in {"q", "Q"} <=> ~call.returned

\* the keys on_press is written to handle, in either case
HandledKeys ==
  Digits \cup {"h", "l", "a", "s", "r", "q", "H", "L", "A", "S", "R", "Q"}

\* how many of the four control fields the step changes
ChangedFields ==
  (IF priority_filter' # priority_filter THEN 1 ELSE 0)
  + (IF urgency_filter' # urgency_filter THEN 1 ELSE 0)
  + (IF sort_by' # sort_by THEN 1 ELSE 0)
  + (IF reverse' # reverse THEN 1 ELSE 0)

\* C11: one call of on_press changes at most one of priority filter, urgency
\* filter, sort mode and reverse flag, never the incident map nor the list of
\* priorities, and a key other than a digit or h, l, a, s, r, q changes nothing.
C11_OneFieldPerKey ==
  [][\A k \in PressedKeys :
       CallOnPress(k) =>
         /\ ChangedFields <= 1
         /\ _incidents' = _incidents
         /\ priorities' = priorities
         /\ k \notin HandledKeys => UNCHANGED controls]_vars

\* the step is on_press handling 's' or 'S'
SortKeyPressed == \E k \in {"s", "S"} : CallOnPress(k)

\* the mode after a mode: creation time, priority, urgency, creation time
NextMode(mode) ==
  CASE mode = CREATED_AT -> PRIORITY
    [] mode = PRIORITY -> URGENCY
    [] mode = URGENCY -> CREATED_AT

\* the last two calls of on_press were both 's' or 'S'
TwoSortKeys ==
  /\ Len(pressed) = 2
  /\ pressed[1].key \in {"s", "S"}
  /\ pressed[2].key \in {"s", "S"}

\* C14: the sort mode is always one of the three modes; 's' moves it to the
\* next mode in the cycle creation time, priority, urgency, creation time; and
\* the third of three 's' presses in a row puts it back to what it was before
\* the first.
C14_SortCycle ==
  /\ [](sort_by \in SortBy)
  /\ [][SortKeyPressed => sort_by' = NextMode(sort_by)]_vars
  /\ [][(TwoSortKeys /\ SortKeyPressed) => sort_by' = pressed[2].sort_by]_vars

\* 's' was pressed from urgency, after an 's' from priority: the mode is
\* creation time again
C14_Witness ==
  /\ TwoSortKeys
  /\ pressed[2].sort_by = PRIORITY
  /\ pressed[1].sort_by = URGENCY
  /\ sort_by = CREATED_AT

(***************************************************************************)
(* update called directly, incident after incident, while the listener     *)
(* changes the filters, the sort mode and the direction                    *)
(***************************************************************************)
MaxUpserts == 3

\* the incidents upserted: A, A again with other fields, B, C
UpsertPool == {RawA1, RawA2, RawB1, RawC1}

\* the keys typed: two priorities, two urgencies, sort, reverse
ViewKeys == {"1", "3", "h", "l", "s", "r"}

\* pd_details.update(Incident.from_dict(raw))
CallUpdate(raw) ==
  /\ Len(upserts) < MaxUpserts
  /\ _incidents' = Update(_incidents, FromDict(raw, now))
  /\ upserts' = Append(upserts, FromDict(raw, now))
  /\ UNCHANGED <<last_updated, counters, priorities, controls, keyboard,
                 eventloop, fp_pc, poller, cs_pc, renderer, now, ncycles,
                 cycle_start, reads, pressed>>

StoreNext ==
  \/ \E raw \in UpsertPool : CallUpdate(raw)
  \/ \E k \in ViewKeys : ListenKey(k)
  \/ FetchPriorities

SpecStore == Init /\ [][StoreNext]_vars

\* the upserts that carried the identifier, and the last of them
UpsertsOf(id) == {i \in DOMAIN upserts : upserts[i].pdid = id}
LastUpsertOf(id) ==
  upserts[CHOOSE i \in UpsertsOf(id) : \A j \in UpsertsOf(id) : j <= i]

\* C3: after any sequence of upserts the store holds exactly one entry for
\* each identifier upserted, with the fields of the last upsert that carried
\* the identifier, and no other entry.
C3_OneEntryPerIdentifier ==
  /\ \A i \in DOMAIN upserts :
       Cardinality({j \in DOMAIN _incidents :
                      _incidents[j].pdid = upserts[i].pdid}) = 1
  /\ \A j \in DOMAIN _incidents :
       /\ UpsertsOf(_incidents[j].pdid) # {}
       /\ _incidents[j] = LastUpsertOf(_incidents[j].pdid)

\* A was upserted, then B, then A again with other fields: two entries, and
\* the entry of A has the fields of its second upsert
C3_Witness ==
  /\ Len(upserts) = 3
  /\ upserts[1].pdid = "A" /\ upserts[2].pdid = "B" /\ upserts[3].pdid = "A"
  /\ upserts[1] # upserts[3]
  /\ Len(_incidents) = 2

\* strptime(created_at, "%Y-%m-%dT%H:%M:%SZ"): minutes since 2023-05-01T00:00
ParseCreatedAt(created_at) ==
  CASE created_at = "2023-05-01T09:30:00Z" -> 570
    [] created_at = "2023-05-01T10:00:00Z" -> 600
    [] created_at = "2023-05-01T10:05:00Z" -> 605

\* the incident passes the filters that are set
Visible(inc) ==
  /\ priority_filter = None \/ inc.priority = priority_filter
  /\ urgency_filter = None \/ inc.urgency = urgency_filter

\* the order of the sort mode: a comes strictly before b
KeyBefore(a, b) ==
  CASE sort_by = CREATED_AT -> StrLess(a.created_at, b.created_at)
    [] sort_by = PRIORITY ->
         \/ StrLess(a.priority, b.priority)
         \/ a.priority = b.priority /\ StrLess(a.created_at, b.created_at)
    [] sort_by = URGENCY ->
         \/ StrLess(a.urgency, b.urgency)
         \/ a.urgency = b.urgency /\ StrLess(a.created_at, b.created_at)

\* where the store keeps the incident
PlaceOf(inc) == CHOOSE j \in DOMAIN _incidents : _incidents[j] = inc

\* the view read front to back, or back to front when reverse is set
Ascending ==
  [i \in DOMAIN incidents |->
     incidents[IF reverse THEN Len(incidents) + 1 - i ELSE i]]

\* C7: the view is exactly the stored incidents that pass every filter that
\* is set, in ascending order of the sort mode's key, incidents of equal key
\* in the order the store keeps them, the whole reversed when the reverse flag
\* is set; by creation time and not reversed, an incident created earlier
\* comes before one created later.
C7_ViewFilteredSorted ==
  /\ {incidents[i] : i \in DOMAIN incidents} =
       {_incidents[j] : j \in {n \in DOMAIN _incidents : Visible(_incidents[n])}}
  /\ \A i, j \in DOMAIN incidents : incidents[i] = incidents[j] => i = j
  /\ \A i, j \in DOMAIN Ascending :
       i < j =>
         /\ ~KeyBefore(Ascending[j], Ascending[i])
         /\ ~KeyBefore(Ascending[i], Ascending[j]) =>
              PlaceOf(Ascending[i]) < PlaceOf(Ascending[j])
  /\ (sort_by = CREATED_AT /\ ~reverse) =>
       \A i, j \in DOMAIN incidents :
         ParseCreatedAt(incidents[i].created_at)
           < ParseCreatedAt(incidents[j].created_at) => i < j

\* low urgency only, by priority, reversed: A (P2) before B (P10)
C7_Witness ==
  /\ urgency_filter = "low" /\ sort_by = PRIORITY /\ reverse
  /\ Len(_incidents) = 3
  /\ Len(incidents) = 2
  /\ incidents[1].pdid = "A" /\ incidents[2].pdid = "B"

(***************************************************************************)
(* The store filled by update, then on_press called key after key          *)
(***************************************************************************)
\* the incidents upserted: A and B of one creation time and urgency, and C
ViewPool == {RawA2, RawB1, RawC1}

\* the keys pressed: a priority, an urgency, sort, reverse in both cases
ViewPressedKeys == {"3", "l", "s", "r", "R"}

ViewNext ==
  \/ pressed = <<>> /\ \E raw \in ViewPool : CallUpdate(raw)
  \/ \E k \in ViewPressedKeys : CallOnPress(k)
  \/ FetchPriorities

SpecView == Init /\ [][ViewNext]_vars

\* the last two calls of on_press were both 'r' or 'R'
TwoReverseKeys ==
  /\ Len(pressed) = 2
  /\ pressed[1].key \in {"r", "R"}
  /\ pressed[2].key \in {"r", "R"}

\* C13: after 'r' pressed twice in a row, nothing else changed in between,
\* the view is the very sequence it was before the first press, incidents of
\* equal sort key in the same relative order, whatever the store, the filters
\* and the sort mode.
C13_ReverseTwice == TwoReverseKeys => incidents = pressed[2].view

\* two incidents of one creation time are in view, sorted by creation time;
\* the first 'r' turned the view round and the second turned it back
C13_Witness ==
  /\ TwoReverseKeys
  /\ sort_by = CREATED_AT
  /\ Len(incidents) >= 2
  /\ incidents[1].created_at = incidents[2].created_at
  /\ pressed[1].view # incidents
  /\ pressed[2].view = incidents

(***************************************************************************)
(* update_counts called directly, between upserts and filter keys          *)
(***************************************************************************)
\* the incidents upserted: two triggered, one acknowledged
CountPool == {RawA1, RawB1, RawC1}

\* the keys typed: a priority and two urgencies
CountKeys == {"1", "h", "l"}

\* pd_details.update_counts(), nothing running between its four assignments
CallUpdateCounts ==
  /\ total_incidents' = Len(incidents)
  /\ total_triggered' = CountTriggeredOf(incidents)
  /\ total_acknowledged' = CountAcknowledgedOf(incidents)
  /\ total_assigned' = CountAssignedOf(incidents)
  /\ UNCHANGED <<last_updated, _incidents, priorities, controls, keyboard,
                 eventloop, fp_pc, poller, cs_pc, renderer, now, bookkeeping>>

CountsNext ==
  \/ \E raw \in CountPool : CallUpdate(raw)
  \/ \E k \in CountKeys : ListenKey(k)
  \/ FetchPriorities
  \/ CallUpdateCounts

SpecCounts == Init /\ [][CountsNext]_vars

\* the places of the store whose incident passes the filters that are set
VisiblePlaces == {j \in DOMAIN _incidents : Visible(_incidents[j])}

\* C12: when update_counts has run with nothing changing under it,
\* total_incidents is the number of incidents of the filtered view (not of the
\* whole store), total_triggered the number of those with status triggered,
\* total_acknowledged the number with status acknowledged, and total_assigned
\* the number that are self-assigned.
C12_CountsOfView ==
  [][CallUpdateCounts =>
       /\ total_incidents' = Cardinality(VisiblePlaces)
       /\ total_triggered' =
            Cardinality({j \in VisiblePlaces : _incidents[j].status = "triggered"})
       /\ total_acknowledged' =
            Cardinality({j \in VisiblePlaces :
                           _incidents[j].status = "acknowledged"})
       /\ total_assigned' =
            Cardinality({j \in VisiblePlaces : _incidents[j].self_assigned})]_vars

\* three incidents stored, two of them of high urgency and in view, one
\* triggered and self-assigned, one acknowledged: the counters are 2, 1, 1, 1
C12_Witness ==
  /\ Len(_incidents) = 3
  /\ urgency_filter = "high"
  /\ priority_filter = None
  /\ counters = <<2, 1, 1, 1>>

(***************************************************************************)
(* clean called directly, between upserts, as time passes                  *)
(***************************************************************************)
\* the incidents upserted
CleanPool == {RawA1, RawB1}

\* the seconds that pass in one go: the interval, a second more, a whole day
ElapsedSeconds == {POLL_TIME_SECONDS, POLL_TIME_SECONDS + 1, SECONDS_PER_DAY}

\* secs seconds pass (a sleep of the poll loop, however long the machine
\* takes over it): datetime.now() is later by as much
Elapse(secs) ==
  /\ ncycles < MaxCycles
  /\ ncycles' = ncycles + 1
  /\ now' = now + secs
  /\ UNCHANGED <<vconsole, keyboard, eventloop, fp_pc, poller, cs_pc, renderer,
                 cycle_start, reads, pressed, upserts>>

\* pd_details.clean()
CallClean ==
  /\ _incidents' = Clean(_incidents, now)
  /\ UNCHANGED <<last_updated, counters, priorities, controls, keyboard,
                 eventloop, fp_pc, poller, cs_pc, renderer, now, bookkeeping>>

CleanNext ==
  \/ \E raw \in CleanPool : CallUpdate(raw)
  \/ \E secs \in ElapsedSeconds : Elapse(secs)
  \/ CallClean

SpecClean == Init /\ [][CleanNext]_vars

\* the incident was last seen no longer ago than the update interval
SeenWithinInterval(inc) == now - inc.last_seen <= POLL_TIME_SECONDS

\* C18: clean removes exactly the incidents last seen longer ago than the
\* update interval: an incident is in the store after clean if and only if it
\* was in it before and now minus its last-seen is at most the interval, however
\* long ago that was (a day or more included), and what stays is unchanged.
C18_CleanEvictsStale ==
  [][CallClean => _incidents' = SelectSeq(_incidents, SeenWithinInterval)]_vars

(***************************************************************************)
(* The status string of the poller                                         *)
(***************************************************************************)
\* a fetch of a poll cycle is in progress: from before the first page is
\* requested until the cycle ends
FetchInProgress == poll_pc \in {"fetching", "closing"}

\* C19: the first poll cycle starts at once, with no wait before it;
\* last_updated reads "Updating..." during the whole of every fetch, whatever
\* the other tasks do, and a timestamp while the poller waits between cycles.
C19_StatusFollowsCycle ==
  /\ [](FetchInProgress => last_updated = "Updating...")
  /\ [](poll_pc = "sleeping" => last_updated = Timestamp)
  /\ [][(poll_pc = "created" /\ poll_pc' # "created") =>
          (poll_pc' = "fetching" /\ now' = now)]_vars

\* the second cycle is fetching, "Updating..." on show, while the request for
\* the priorities, which wrote its own status at startup, is still in flight
C19_Witness ==
  /\ poll_pc = "fetching"
  /\ ncycles = 2
  /\ fp_pc = "awaiting"
  /\ last_updated = "Updating..."

(***************************************************************************)
(* The counters as update_counts leaves them                               *)
(***************************************************************************)
\* update_counts is not between its assignments
CountsAssigned == r_pc \notin {"triggered", "acknowledged", "assigned"}

\* C20: whenever update_counts is not in the middle of its assignments, key
\* presses on the listener thread notwithstanding, the counters agree with one
\* another: total_triggered + total_acknowledged <= total_incidents and
\* total_assigned <= total_incidents.
C20_CountersConsistent ==
  CountsAssigned =>
    /\ total_triggered + total_acknowledged <= total_incidents
    /\ total_assigned <= total_incidents

(***************************************************************************)
(* The incident panel on terminals of several heights, no key typed but    *)
(* quit: nothing changes the view during a render tick                     *)
(***************************************************************************)
\* console.size.height: six rows (panel height 0), eight rows (panel height 2)
PanelHeights == {6, 8}

PanelNext == Program({"q"}, Served, PanelHeights)

PanelSpec == Init /\ [][PanelNext]_vars

\* render_incident_panel has computed its rows and its hidden count
PanelComputed == r_pc = "total"

\* the lines the panel emits: the rows, and the summary line if hidden_count
EmittedLines == Len(incidents_) + (IF hidden_count # 0 THEN 1 ELSE 0)

\* C17: for a view of length L and panel height N, the panel has all L rows
\* and no summary line when L <= N, and otherwise the first N-1 rows and a
\* summary line reporting L-(N-1) hidden incidents; the lines emitted are never
\* more than N, and rows shown plus hidden count is L.
C17_PanelTruncation ==
  PanelComputed =>
    /\ incidents_ = PanelRows(incidents, mxh)
    /\ hidden_count = PanelHidden(incidents, mxh)
    /\ EmittedLines <= mxh
    /\ Len(incidents_) + hidden_count = Len(incidents)

(***************************************************************************)
(* An incident the renderer cannot format                                  *)
(***************************************************************************)
\* the incident with the offset timestamp on the first page, B on the second
OddIncidents == <<{<<RawOdd>>}, {<<RawB1>>}>>

OddNext == Program({"q"}, OddIncidents, ShortTerminal)

OddSpec == Init /\ [][OddNext]_vars

\* an exception has left render_vconsole, and no quit key has been typed
RenderFailed == r_pc = "failed" /\ kb_pc = "listening"

\* the poller takes a step
PollerSteps == poll_pc' # poll_pc \/ page' # page \/ ncycles' # ncycles

\* the listener handles a key
KeyHandled == \E k \in Keys : ListenKey(k)

\* C15: an exception raised in the render loop (an unparsable created_at
\* while a row is formatted) is fatal to the whole program: once the render
\* loop has died (nobody having asked to quit), the poller and the key
\* listener do not go on running.
C15_RenderErrorFatal ==
  [][RenderFailed => ~(PollerSteps \/ KeyHandled)]_vars

(***************************************************************************)
(* The process ended from outside                                          *)
(***************************************************************************)
\* SIGTERM is delivered: main installs no handler, the process ends at once;
\* neither the listener's set_normal_term nor the atexit handler runs
Terminate ==
  /\ main_pc = "run_forever"
  /\ main_pc' = "killed"
  /\ loop' = "stopped"
  /\ kb_pc' = "dead"
  /\ r_pc' = "killed"
  /\ UNCHANGED <<vconsole, term, key, exit_code, batch, fp_pc, poller, cs_pc,
                 mxh, incidents_, hidden_count, now, bookkeeping>>

SignalNext ==
  \/ QuitNext
  \/ Terminate

SignalSpec == Init /\ [][SignalNext]_vars

\* the process is over: main has returned, or the process was killed
ProcessEnded == main_pc \in {"returned", "killed"}

\* C16: whichever way the process ends (quit by 'q', or ended from outside),
\* the terminal is back in its saved settings when it has ended: no ended
\* state has the terminal in raw mode.
C16_TerminalRestored == ProcessEnded => term = "normal"

(***************************************************************************)
(* calc_max_height called directly, over the heights of a terminal         *)
(***************************************************************************)
\* console.size.height: no rows at all up to a tall terminal
TerminalHeights == 0 .. 120

\* mxh = calc_max_height(console), the terminal height rows high
CallCalcMaxHeight(height) ==
  /\ mxh' = CalcMaxHeight(height)
  /\ UNCHANGED <<vconsole, keyboard, eventloop, fp_pc, poller, cs_pc, r_pc,
                 incidents_, hidden_count, now, bookkeeping>>

HeightNext == \E height \in TerminalHeights : CallCalcMaxHeight(height)

HeightSpec == Init /\ [][HeightNext]_vars

\* C21: whatever the height of the terminal (any non-negative number of
\* rows), calc_max_height returns at least MIN_DISPLAY_ROWS: the incident
\* panel is never given a zero, negative or below-minimum row budget.
C21_PanelHeightAtLeastMinimum ==
  [][\A height \in TerminalHeights :
       CallCalcMaxHeight(height) => mxh' >= MIN_DISPLAY_ROWS]_vars

(***************************************************************************)
(* Poll cycles whose requests can be slow                                  *)
(***************************************************************************)
\* the seconds await client.get takes: answered at once, or slower than the
\* update interval (httpx bounds each read of the socket, not the request)
SlowFetchSeconds == {0, POLL_TIME_SECONDS + 1}

\* fetch_priorities and update_pd_details, the requests of fetch_incidents
\* taking their time
SlowNext ==
  \/ FetchPriorities
  \/ PollStart
  \/ \E secs \in SleepSeconds : PollWake(secs)
  \/ \E secs \in SlowFetchSeconds : PollPageHttpError(secs)
  \/ \E secs \in SlowFetchSeconds, recs \in PageContents(Served, page),
        more \in BOOLEAN : PollPage(secs, recs, more)
  \/ PollCycleEnd

SlowSpec == Init /\ [][SlowNext]_vars

\* the incident was yielded by the cycle that has just completed: it was
\* constructed, with its last-seen time, since the cycle began
ReturnedThisCycle(inc) == \A i \in DOMAIN cycle_start : cycle_start[i] # inc

\* the incident is in the store after the step
StillStored(inc) == \E j \in DOMAIN _incidents' : _incidents'[j] = inc

\* C22: the eviction step that follows a completed poll cycle removes no
\* incident that the cycle returned, however long the fetch of its pages took;
\* only incidents absent from the cycle can be evicted.
C22_LatestCycleKept ==
  [][PollCycleEnd =>
       \A i \in DOMAIN _incidents :
         ReturnedThisCycle(_incidents[i]) => StillStored(_incidents[i])]_vars

=============================================================================
